---- MODULE Spec2Model ----
(***************************************************************************)
(* A model of the two algorithmic components of the logo pipeline:         *)
(*   - the visual-similarity clustering of 4-cluster-logos.py              *)
(*     (pairwise Hamming comparison, union-find, grouping and report), and *)
(*   - the HTML-signal candidate scorer of tools/extract-logo.py.          *)
(*                                                                         *)
(* Domain identifiers are represented by the integers 1..MaxDomains; the   *)
(* integer is the position of the domain name in lexicographic order       *)
(* (1 = "a.com", 2 = "b.com", ...), so Python's string comparison in       *)
(* sorted() is integer comparison here.                                    *)
(* A perceptual hash is the set of positions of its 1-bits; the            *)
(* subtraction of two hashes is the number of positions where they differ. *)
(***************************************************************************)
EXTENDS Integers, Sequences, FiniteSets, TLC

VARIABLES
    hashes,          \* main: hashes, the mapping domain -> hash
    domains,         \* main: domains = list(hashes.keys())
    parent,          \* main: parent
    rank,            \* main: rank
    i,               \* position of the outer loop of the pairwise pass
    j,               \* position of the inner loop of the pairwise pass
    k,               \* position of the grouping loop
    clusters,        \* main: clusters (root -> members, in insertion order)
    multi_clusters,  \* main: multi_clusters (in insertion order)
    singletons,      \* main: singletons (in insertion order)
    report,          \* the cluster sections of the written report, in order
    report_singles,  \* the singleton section of the written report
    call,            \* the last union-find call made (for the free-call specification)
    base_url,        \* extract-logo main: base_url
    doc,             \* the parsed page: its elements in document order
    pos,             \* position in the order in which analyze_html visits the elements
    candidates,      \* analyze_html: candidates (in insertion order)
    log,             \* the calls of update_candidate made so far
    results,         \* extract-logo main: results
    first_results,   \* the results of the first run, kept when the scorer is run again
    run,             \* which run of the scorer this is
    pc               \* where the program is

clusterVars == <<hashes, domains, parent, rank, i, j, k, clusters, multi_clusters,
                 singletons, report, report_singles, call>>

scoreVars == <<base_url, doc, pos, candidates, log, results, first_results, run>>

vars == <<clusterVars, scoreVars, pc>>

-----------------------------------------------------------------------------
(* Bounds and constants *)

MaxDomains == 4

HASH_THRESHOLD == 8

AllDomains == 1 .. MaxDomains

\* The hashes the inputs are drawn from, each the set of its 1-bits.
\* Distances: HashA-HashB 5, HashB-HashC 6, HashA-HashC 11,
\* HashA-HashD 8 (exactly the threshold), HashB-HashD 9 (just above it),
\* HashC-HashD 15; two domains with the same hash are at distance 0.
HashA == {}
HashB == 1 .. 5
HashC == 1 .. 11
HashD == {1, 2} \cup (20 .. 25)

HashPool == {HashA, HashB, HashC, HashD}

-----------------------------------------------------------------------------
(* Helpers *)

Range(s) == {s[n] : n \in DOMAIN s}

\* All orderings of the set S, as sequences without repetition.
Orderings(S) ==
    {s \in [1 .. Cardinality(S) -> S] : \A a, b \in DOMAIN s : a # b => s[a] # s[b]}

\* sorted() on a list of domains.
sorted(s) == SortSeq(s, LAMBDA a, b : a < b)

RECURSIVE Flatten(_)
Flatten(ss) == IF ss = <<>> THEN <<>> ELSE Head(ss) \o Flatten(Tail(ss))

-----------------------------------------------------------------------------
(* Hamming distance and the similarity test *)

\* hashes[d1] - hashes[d2]
Distance(h1, h2) == Cardinality((h1 \ h2) \cup (h2 \ h1))

SimilarStrict(h1, h2) == Distance(h1, h2) < HASH_THRESHOLD

\* distance <= HASH_THRESHOLD
Similar(h1, h2) == Distance(h1, h2) <= HASH_THRESHOLD

-----------------------------------------------------------------------------
(* Union-find *)

\* find_cluster mutates parent and returns the root; here it returns the
\* parent map after the call, and the returned root is that map at x.
RECURSIVE find_cluster(_, _)
find_cluster(p, x) ==
    IF p[x] # x
    THEN LET q == find_cluster(p, p[x])
         IN  [q EXCEPT ![x] = q[p[x]]]
    ELSE p

union_clusters_norank(p, r, x, y) ==
    LET p1 == find_cluster(p, x)
        root_x == p1[x]
        p2 == find_cluster(p1, y)
        root_y == p2[y]
    IN  IF root_x # root_y
        THEN IF r[root_x] < r[root_y]
             THEN [parent |-> [p2 EXCEPT ![root_x] = root_y], rank |-> r]
             ELSE [parent |-> [p2 EXCEPT ![root_y] = root_x], rank |-> r]
        ELSE [parent |-> p2, rank |-> r]

union_clusters_nofind(p, r, x, y) ==
    LET p1 == find_cluster(p, x)
        root_x == p1[x]
        p2 == find_cluster(p1, y)
        root_y == p2[y]
    IN  IF root_x # root_y
        THEN [parent |-> [p2 EXCEPT ![x] = root_y], rank |-> r]
        ELSE [parent |-> p2, rank |-> r]

\* union_clusters mutates parent and rank; here it returns both after the call.
union_clusters(p, r, x, y) ==
    LET p1 == find_cluster(p, x)
        root_x == p1[x]
        p2 == find_cluster(p1, y)
        root_y == p2[y]
    IN  IF root_x # root_y
        THEN IF r[root_x] < r[root_y]
             THEN [parent |-> [p2 EXCEPT ![root_x] = root_y], rank |-> r]
             ELSE IF r[root_x] > r[root_y]
             THEN [parent |-> [p2 EXCEPT ![root_y] = root_x], rank |-> r]
             ELSE [parent |-> [p2 EXCEPT ![root_y] = root_x],
                   rank |-> [r EXCEPT ![root_x] = r[root_x] + 1]]
        ELSE [parent |-> p2, rank |-> r]

-----------------------------------------------------------------------------
(* The pairwise pass *)

\* The body of the inner loop for the pair at positions a < b of the list ds.
pair_step(uf, ds, hs, a, b) ==
    IF Similar(hs[ds[a]], hs[ds[b]])
    THEN union_clusters(uf.parent, uf.rank, ds[a], ds[b])
    ELSE uf

next_i(n, a, b) == IF b < n THEN a ELSE a + 1
next_j(n, a, b) == IF b < n THEN b + 1 ELSE a + 2

\* The whole pairwise pass on the list ds, from the pair at positions a, b on.
RECURSIVE run_pairs(_, _, _, _, _)
run_pairs(uf, ds, hs, a, b) ==
    IF b > Len(ds)
    THEN uf
    ELSE run_pairs(pair_step(uf, ds, hs, a, b), ds, hs,
                   next_i(Len(ds), a, b), next_j(Len(ds), a, b))

\* parent = {d: d for d in domains}; rank = {d: 0 for d in domains}
initial_uf(ds) == [parent |-> [d \in Range(ds) |-> d], rank |-> [d \in Range(ds) |-> 0]]

-----------------------------------------------------------------------------
(* Grouping and report *)

\* clusters[root].append(domain) on a defaultdict(list) kept in insertion order
append_member(cs, root, d) ==
    IF \E n \in DOMAIN cs : cs[n].root = root
    THEN [n \in DOMAIN cs |->
            IF cs[n].root = root
            THEN [cs[n] EXCEPT !.members = Append(@, d)]
            ELSE cs[n]]
    ELSE Append(cs, [root |-> root, members |-> <<d>>])

IsMulti(c) == Len(c.members) > 1
IsSingle(c) == Len(c.members) = 1
IsBig(c) == Len(c.members) > 2

multi_of_big(cs) == SelectSeq(cs, IsBig)

\* {k: v for k, v in clusters.items() if len(v) > 1}
multi_of(cs) == SelectSeq(cs, IsMulti)

\* [k for k, v in clusters.items() if len(v) == 1]
singletons_of(cs) ==
    LET s == SelectSeq(cs, IsSingle) IN [n \in DOMAIN s |-> s[n].root]

\* sorted(multi_clusters.items(), key=lambda x: -len(x[1])): a stable sort,
\* so the items of size n keep their order, for n from the largest size down.
RECURSIVE by_size_from(_, _)
by_size_from(cs, n) ==
    IF n < 1
    THEN <<>>
    ELSE LET OfSize(c) == Len(c.members) = n
         IN  SelectSeq(cs, OfSize) \o by_size_from(cs, n - 1)

sorted_clusters_of(cs) == by_size_from(cs, MaxDomains)

-----------------------------------------------------------------------------
(* The clustering run *)

Idle == [op |-> "none", x |-> 0, y |-> 0, changed |-> FALSE]

InitCluster ==
    /\ \E S \in SUBSET AllDomains :
         /\ hashes \in [S -> HashPool]
         /\ domains \in Orderings(S)
    /\ parent = initial_uf(domains).parent
    /\ rank = initial_uf(domains).rank
    /\ i = 1
    /\ j = 2
    /\ k = 1
    /\ clusters = <<>>
    /\ multi_clusters = <<>>
    /\ singletons = <<>>
    /\ report = <<>>
    /\ report_singles = <<>>
    /\ call = Idle
    /\ base_url = <<>>
    /\ doc = <<>>
    /\ pos = 1
    /\ candidates = <<>>
    /\ log = <<>>
    /\ results = <<>>
    /\ first_results = <<>>
    /\ run = 1
    /\ pc = "pairs"

\* One iteration of the inner loop (lines 57-60).
PairStep ==
    /\ pc = "pairs"
    /\ j <= Len(domains)
    /\ LET uf == pair_step([parent |-> parent, rank |-> rank], domains, hashes, i, j)
       IN  /\ parent' = uf.parent
           /\ rank' = uf.rank
    /\ i' = next_i(Len(domains), i, j)
    /\ j' = next_j(Len(domains), i, j)
    /\ UNCHANGED <<scoreVars, hashes, domains, k, clusters, multi_clusters, singletons,
                   report, report_singles, call, pc>>

\* The pairwise loops are exhausted (line 62).
PairsDone ==
    /\ pc = "pairs"
    /\ j > Len(domains)
    /\ pc' = "group"
    /\ UNCHANGED <<scoreVars, hashes, domains, parent, rank, i, j, k, clusters, multi_clusters,
                   singletons, report, report_singles, call>>

\* One iteration of the grouping loop (lines 63-65).
GroupStep ==
    /\ pc = "group"
    /\ k <= Len(domains)
    /\ parent' = find_cluster(parent, domains[k])
    /\ clusters' = append_member(clusters, parent'[domains[k]], domains[k])
    /\ k' = k + 1
    /\ UNCHANGED <<scoreVars, hashes, domains, rank, i, j, multi_clusters, singletons,
                   report, report_singles, call, pc>>

\* Lines 67-68.
Split ==
    /\ pc = "group"
    /\ k > Len(domains)
    /\ multi_clusters' = multi_of(clusters)
    /\ singletons' = singletons_of(clusters)
    /\ pc' = "write"
    /\ UNCHANGED <<scoreVars, hashes, domains, parent, rank, i, j, k, clusters,
                   report, report_singles, call>>

\* Lines 80-90: the cluster sections and the singleton section of the report.
WriteReport ==
    /\ pc = "write"
    /\ LET sc == sorted_clusters_of(multi_clusters)
       IN  report' = [n \in DOMAIN sc |-> sorted(sc[n].members)]
    /\ report_singles' = sorted(singletons)
    /\ pc' = "done"
    /\ UNCHANGED <<scoreVars, hashes, domains, parent, rank, i, j, k, clusters,
                   multi_clusters, singletons, call>>

NextCluster == PairStep \/ PairsDone \/ GroupStep \/ Split \/ WriteReport

SpecCluster == InitCluster /\ [][NextCluster]_vars

-----------------------------------------------------------------------------
(* Properties of the clustering run *)

\* The node reached from x by following n parent pointers.
RECURSIVE Up(_, _, _)
Up(p, x, n) == IF n = 0 THEN x ELSE Up(p, p[x], n - 1)

\* The root of x's tree, read without changing the parent map.
TopOf(p, x) == Up(p, x, Cardinality(DOMAIN p))

\* The groups of domains that share a root.
PartitionOf(p) == {{b \in DOMAIN p : TopOf(p, b) = TopOf(p, a)} : a \in DOMAIN p}

\* The pairs of hashes of the pool at Hamming distance <= threshold.
CloseHashes ==
    {p \in HashPool \X HashPool :
        Cardinality((p[1] \ p[2]) \cup (p[2] \ p[1])) <= HASH_THRESHOLD}

\* The domains reachable from the set S by chains of links whose two ends are
\* at Hamming distance <= threshold.
RECURSIVE Reach(_, _)
Reach(hs, S) ==
    LET T == S \cup {b \in DOMAIN hs \ S :
                       \E a \in S : <<hs[a], hs[b]>> \in CloseHashes}
    IN  IF T = S THEN S ELSE Reach(hs, T)

Count(s, d) == Cardinality({n \in DOMAIN s : s[n] = d})

\* The pairwise loop has just ended, or the run is over.
AfterPairs == (pc = "group" /\ k = 1) \/ pc = "done"
AfterSplit == pc \in {"write", "done"}

\* The members of all multi-member clusters, then the singletons.
OutputMembers ==
    Flatten([n \in DOMAIN multi_clusters |-> multi_clusters[n].members]) \o singletons

\* C1: after the grouping by root, every domain that has a hash appears exactly
\* once over the multi-member clusters and the singleton list together, and a
\* domain without a hash appears in none of them; the written report lists the
\* same domains once each.
C1_PartitionComplete ==
    /\ AfterSplit =>
         \A d \in AllDomains :
            Count(OutputMembers, d) = (IF d \in DOMAIN hashes THEN 1 ELSE 0)
    /\ pc = "done" =>
         \A d \in AllDomains :
            Count(Flatten(report) \o report_singles, d)
               = (IF d \in DOMAIN hashes THEN 1 ELSE 0)

C1_Witness ==
    /\ pc = "done"
    /\ DOMAIN hashes # AllDomains
    /\ Len(report) > 0
    /\ Len(report_singles) > 0

\* C2: after the pairwise loop two domains have the same root exactly when a
\* chain of input domains joins them in which every consecutive pair is at
\* Hamming distance <= threshold (a distance equal to the threshold counts).
C2_Connectivity ==
    AfterPairs =>
        \A a \in DOMAIN hashes :
            LET top == TopOf(parent, a)
            IN  {b \in DOMAIN hashes : TopOf(parent, b) = top} = Reach(hashes, {a})

\* Three domains at distances 5, 6 and 11 (above the threshold) share a root
\* through the middle one, and so does a pair at exactly the threshold.
C2_Witness ==
    /\ pc = "done"
    /\ \E a, b, c \in DOMAIN hashes :
         /\ Distance(hashes[a], hashes[b]) = 5
         /\ Distance(hashes[b], hashes[c]) = 6
         /\ Distance(hashes[a], hashes[c]) > HASH_THRESHOLD
         /\ TopOf(parent, a) = TopOf(parent, c)
    /\ \E a, b \in DOMAIN hashes :
         /\ Distance(hashes[a], hashes[b]) = HASH_THRESHOLD
         /\ TopOf(parent, a) = TopOf(parent, b)
    /\ \E a, b \in DOMAIN hashes :
         /\ Distance(hashes[a], hashes[b]) = HASH_THRESHOLD + 1
         /\ TopOf(parent, a) = TopOf(parent, b)

\* The union-find state the pairwise pass reaches on the domains taken in
\* lexicographic order.
CanonicalRun ==
    LET ds == sorted(domains) IN run_pairs(initial_uf(ds), ds, hashes, 1, 2)

\* The groups the grouping loop has built, as a set of sets.
OutputPartition == {Range(clusters[n].members) : n \in DOMAIN clusters}

\* C3: whatever the iteration order of the domains, the final partition (as a
\* set of sets) is the one obtained from the domains in lexicographic order;
\* roots and ranks may differ.
C3_PermutationInvariant ==
    pc = "done" =>
        LET canonical == PartitionOf(CanonicalRun.parent)
        IN  /\ PartitionOf(parent) = canonical
            /\ OutputPartition = canonical

C3_Witness ==
    /\ pc = "done"
    /\ domains # sorted(domains)
    /\ Len(multi_clusters) > 0
    /\ \E d \in DOMAIN hashes : TopOf(parent, d) # TopOf(CanonicalRun.parent, d)
    /\ rank # CanonicalRun.rank

\* Lexicographic order on two lists of domains of the same length.
LexLess(s, t) ==
    \E n \in DOMAIN s :
        /\ \A m \in 1 .. (n - 1) : s[m] = t[m]
        /\ s[n] < t[n]

\* C4: in the written report the clusters are listed by descending member
\* count, and clusters of equal size in lexicographic order of their sorted
\* member lists.
C4_ReportOrder ==
    pc = "done" =>
        \A a, b \in DOMAIN report :
            a < b =>
                \/ Len(report[a]) > Len(report[b])
                \/ /\ Len(report[a]) = Len(report[b])
                   /\ LexLess(report[a], report[b])

-----------------------------------------------------------------------------
(* Union-find under arbitrary calls *)

\* parent and rank as main initialises them, then any sequence of
\* union_clusters and find_cluster calls on any domains.
InitUF ==
    /\ hashes = <<>>
    /\ domains = <<>>
    /\ parent = [d \in AllDomains |-> d]
    /\ rank = [d \in AllDomains |-> 0]
    /\ i = 1
    /\ j = 2
    /\ k = 1
    /\ clusters = <<>>
    /\ multi_clusters = <<>>
    /\ singletons = <<>>
    /\ report = <<>>
    /\ report_singles = <<>>
    /\ call = Idle
    /\ base_url = <<>>
    /\ doc = <<>>
    /\ pos = 1
    /\ candidates = <<>>
    /\ log = <<>>
    /\ results = <<>>
    /\ first_results = <<>>
    /\ run = 1
    /\ pc = "calls"

UnionCall ==
    /\ pc = "calls"
    /\ \E x, y \in AllDomains :
         LET uf == union_clusters(parent, rank, x, y)
         IN  /\ parent' = uf.parent
             /\ rank' = uf.rank
             /\ call' = [op |-> "union", x |-> x, y |-> y,
                         changed |-> uf.parent # parent]
    /\ UNCHANGED <<scoreVars, hashes, domains, i, j, k, clusters, multi_clusters, singletons,
                   report, report_singles, pc>>

FindCall ==
    /\ pc = "calls"
    /\ \E x \in AllDomains :
         /\ parent' = find_cluster(parent, x)
         /\ call' = [op |-> "find", x |-> x, y |-> x,
                     changed |-> find_cluster(parent, x) # parent]
    /\ UNCHANGED <<scoreVars, hashes, domains, rank, i, j, k, clusters, multi_clusters,
                   singletons, report, report_singles, pc>>

NextUF == UnionCall \/ FindCall

SpecUF == InitUF /\ [][NextUF]_vars

\* Following parent pointers from x reaches a self-parented root, and no node
\* is met twice on the way.
IsForest(p) ==
    \A x \in DOMAIN p :
        /\ p[TopOf(p, x)] = TopOf(p, x)
        /\ \A m, n \in 0 .. Cardinality(DOMAIN p) :
              (m < n /\ Up(p, x, m) = Up(p, x, n)) => p[Up(p, x, m)] = Up(p, x, m)

\* C10: the parent map is a forest, every non-root has a rank strictly smaller
\* than its parent's, and find_cluster returns the root of its argument and
\* leaves unchanged which domains share a root.
C10_WellFormed ==
    /\ IsForest(parent)
    /\ \A x \in DOMAIN parent : parent[x] # x => rank[x] < rank[parent[x]]
    /\ \A x \in DOMAIN parent :
          LET q == find_cluster(parent, x)
          IN  /\ q[x] = TopOf(parent, x)
              /\ PartitionOf(q) = PartitionOf(parent)

\* A find_cluster call has compressed a path (changed a parent pointer) in a
\* tree of rank 2.
C10_Witness ==
    /\ call.op = "find"
    /\ call.changed
    /\ \E x \in DOMAIN parent : rank[x] >= 2

-----------------------------------------------------------------------------
(* The candidate scorer: strings and URLs *)

\* A string is a sequence of tokens ("https://acme.com" is
\* <<"https", "://", "acme", ".", "com">>); the pages drawn below are cut into
\* tokens so that every text the scorer searches for is a run of whole tokens.
\* Python's None is the value None below; "" is the empty sequence.
None == <<"<None>">>

\* not s
Falsy(s) == s = None \/ s = <<>>

\* str.lower() on one token
LowerTok(t) ==
    CASE t = "Acme" -> "acme"
      [] t = "Logo" -> "logo"
      [] t = "Partner" -> "partner"
      [] t = "Header" -> "header"
      [] OTHER -> t

\* str.lower()
Lower(s) == [n \in DOMAIN s |-> LowerTok(s[n])]

\* sub in s
Contains(s, sub) ==
    \E n \in 0 .. (Len(s) - Len(sub)) : SubSeq(s, n + 1, n + Len(sub)) = sub

\* s.startswith(pre)
StartsWith(s, pre) == Len(s) >= Len(pre) /\ SubSeq(s, 1, Len(pre)) = pre

\* The first position of token t in s, 0 when it is absent.
IndexOf(s, t) ==
    IF \E n \in DOMAIN s : s[n] = t
    THEN CHOOSE n \in DOMAIN s : s[n] = t /\ \A m \in 1 .. (n - 1) : s[m] # t
    ELSE 0

\* The last position of token t in s, 0 when it is absent.
LastIndexOf(s, t) ==
    IF \E n \in DOMAIN s : s[n] = t
    THEN CHOOSE n \in DOMAIN s : s[n] = t /\ \A m \in (n + 1) .. Len(s) : s[m] # t
    ELSE 0

\* str.strip()
RECURSIVE Strip(_)
Strip(s) ==
    IF s # <<>> /\ Head(s) = " " THEN Strip(Tail(s))
    ELSE IF s # <<>> /\ s[Len(s)] = " " THEN Strip(SubSeq(s, 1, Len(s) - 1))
    ELSE s

\* sep.join(list)
RECURSIVE Join(_, _)
Join(sep, list) ==
    IF list = <<>> THEN <<>>
    ELSE IF Len(list) = 1 THEN list[1]
    ELSE list[1] \o sep \o Join(sep, Tail(list))

\* urllib.parse.urlparse, for URLs without parameters, query or fragment:
\* "scheme://netloc/path", "scheme:rest" and plain paths.
urlparse(u) ==
    IF Len(u) >= 2 /\ u[2] = "://"
    THEN LET rest == SubSeq(u, 3, Len(u))
             m == IndexOf(rest, "/")
         IN  [scheme |-> Lower(<<u[1]>>),
              netloc |-> IF m = 0 THEN rest ELSE SubSeq(rest, 1, m - 1),
              path |-> IF m = 0 THEN <<>> ELSE SubSeq(rest, m, Len(rest))]
    ELSE IF Len(u) >= 2 /\ u[2] = ":"
    THEN [scheme |-> Lower(<<u[1]>>), netloc |-> <<>>, path |-> SubSeq(u, 3, Len(u))]
    ELSE [scheme |-> <<>>, netloc |-> <<>>, path |-> u]

\* urllib.parse.urljoin, for the same URLs and references without dot segments:
\* a reference with a scheme stands for itself, a path starting with "/"
\* replaces the base's path, any other path replaces the base path's last segment.
urljoin(base, url) ==
    LET b == urlparse(base)
        u == urlparse(url)
        slash == LastIndexOf(b.path, "/")
        dir == IF slash = 0 THEN <<"/">> ELSE SubSeq(b.path, 1, slash)
    IN  IF url = <<>> THEN base
        ELSE IF u.scheme # <<>> THEN url
        ELSE IF StartsWith(u.path, <<"/">>)
        THEN b.scheme \o <<"://">> \o b.netloc \o u.path
        ELSE b.scheme \o <<"://">> \o b.netloc \o dir \o u.path

normalize_url(base, url) ==
    IF Falsy(url)
    THEN None
    ELSE LET full_url == urljoin(base, Strip(url))
         IN  IF \/ StartsWith(Lower(full_url), <<"http", "://">>)
                \/ StartsWith(Lower(full_url), <<"https", "://">>)
             THEN full_url
             ELSE None

extract_domain_stem(url) ==
    LET netloc == urlparse(url).netloc
        bare == IF StartsWith(netloc, <<"www", ".">>)
                THEN SubSeq(netloc, 3, Len(netloc))
                ELSE netloc
        dot == IndexOf(bare, ".")
    IN  Lower(IF dot = 0 THEN bare ELSE SubSeq(bare, 1, dot - 1))

HomePaths ==
    {<<>>, <<"/">>, <<"/", "index", ".", "html">>, <<"/", "index", ".", "php">>}

is_home_link(base, href) ==
    IF Falsy(href)
    THEN FALSE
    ELSE LET abs_href == normalize_url(base, href)
         IN  IF Falsy(abs_href)
             THEN FALSE
             ELSE /\ urlparse(base).netloc = urlparse(abs_href).netloc
                  /\ urlparse(abs_href).path \in HomePaths

-----------------------------------------------------------------------------
(* The candidate scorer: the parsed page *)

\* An ancestor of an image: tag name, class list, id and href (None when absent).
Anc(name, class, id, href) == [name |-> name, class |-> class, id |-> id, href |-> href]

\* <img>: src (None when absent), alt, class list, id, and its ancestors from the
\* nearest one outwards (img.parents).
Img(src, alt, class, id, parents) ==
    [tag |-> "img", src |-> src, alt |-> alt, class |-> class, id |-> id,
     parents |-> parents]

\* <link rel=... href=...>
Link(rel, href) == [tag |-> "link", rel |-> rel, href |-> href]

\* <meta property="og:image" content=...>
Meta(content) == [tag |-> "meta", content |-> content]

\* <script type="application/ld+json">: its text parsed by json.loads, as a
\* tagged value; JBad is a text that json.loads rejects.
Script(data) == [tag |-> "script", data |-> data]
JStr(v) == [t |-> "str", v |-> v]
JDict(items) == [t |-> "dict", v |-> items]      \* items: <<key, value>> pairs in order
JList(items) == [t |-> "list", v |-> items]
JBad == [t |-> "bad", v |-> <<>>]

LogoPng == <<"/", "logo", ".", "png">>
PicPng == <<"/", "pic", ".", "png">>
PartnerPng == <<"/", "partner", ".", "png">>
CdnLogo == <<"https", "://", "cdn", ".", "acme", ".", "com", "/", "acme", "-", "logo", ".", "png">>

\* <a href="/"><img src="/logo.png" alt="Acme logo"></a>
ImgHome == Img(LogoPng, <<"Acme", " ", "logo">>, <<>>, <<>>,
               <<Anc("a", <<>>, None, <<"/">>)>>)

\* <footer><div><img src="/pic.png"></div></footer>
ImgFooter == Img(PicPng, <<>>, <<>>, <<>>,
                 <<Anc("div", <<>>, None, None), Anc("footer", <<>>, None, None)>>)

\* <footer><div class="site-Header"><img src="/pic.png"></div></footer>
ImgHeaderFooter ==
    Img(PicPng, <<>>, <<>>, <<>>,
        <<Anc("div", <<<<"site", "-", "Header">>>>, None, None),
          Anc("footer", <<>>, None, None)>>)

\* <div id="sponsor"><a href="https://other.com/">
\*   <img src="/partner.png" alt="Partner Logo"></a></div>
ImgPartner ==
    Img(PartnerPng, <<"Partner", " ", "Logo">>, <<>>, <<>>,
        <<Anc("a", <<>>, None, <<"https", "://", "other", ".", "com", "/">>),
          Anc("div", <<>>, <<"sponsor">>, None)>>)

\* <header><img class="brand" src="https://cdn.acme.com/acme-logo.png"></header>
ImgCdn == Img(CdnLogo, <<>>, <<<<"brand">>>>, <<>>, <<Anc("header", <<>>, None, None)>>)

\* <img alt="Logo">
ImgNoSrc == Img(None, <<"Logo">>, <<>>, <<>>, <<>>)

LinkIcon == Link(<<"icon">>, LogoPng)
LinkTouch == Link(<<"apple", "-", "touch", "-", "icon">>, <<" ", "data", ":", "image">>)
LinkCss == Link(<<"stylesheet">>, <<"/", "site", ".", "css">>)
MetaOg == Meta(LogoPng)

\* {"@type": "Organization", "logo": "/logo.png"}
ScriptOrg ==
    Script(JDict(<< <<"@type", JStr(<<"Organization">>)>>, <<"logo", JStr(LogoPng)>> >>))

\* [{"@type": "Brand",
\*   "logo": {"@type": "ImageObject", "url": "https://cdn.acme.com/acme-logo.png"}}]
ScriptNested ==
    Script(JList(<< JDict(<< <<"@type", JStr(<<"Brand">>)>>,
                             <<"logo", JDict(<< <<"@type", JStr(<<"ImageObject">>)>>,
                                                <<"url", JStr(CdnLogo)>> >>)>> >>) >>))

ScriptBad == Script(JBad)

\* The elements pages are built from.
ElemPool ==
    <<ImgHome, ImgFooter, ImgHeaderFooter, ImgPartner, ImgCdn, ImgNoSrc,
      LinkIcon, LinkTouch, LinkCss, MetaOg, ScriptOrg, ScriptNested, ScriptBad>>

\* The base URLs: "https://acme.com" and "https://www.acme.com/".
AcmeCom == <<"https", "://", "acme", ".", "com">>
WwwAcmeCom == <<"https", "://", "www", ".", "acme", ".", "com", "/">>
BasePool == {AcmeCom, WwwAcmeCom}

MaxElems == 3

-----------------------------------------------------------------------------
(* The candidate scorer: detectors *)

JHas(obj, key) == \E n \in DOMAIN obj.v : obj.v[n][1] = key
JGet(obj, key) == obj.v[CHOOSE n \in DOMAIN obj.v : obj.v[n][1] = key][2]

OrgTypes == {<<"Organization">>, <<"Brand">>, <<"Corporation">>}

\* find_logo; the "url" of a nested logo object is a string in every page drawn.
RECURSIVE find_logo(_)
find_logo(obj) ==
    IF obj.t = "dict"
    THEN LET found ==
                IF /\ JHas(obj, "@type")
                   /\ JGet(obj, "@type").t = "str"
                   /\ JGet(obj, "@type").v \in OrgTypes
                   /\ JHas(obj, "logo")
                THEN LET logo_val == JGet(obj, "logo")
                     IN  IF logo_val.t = "str"
                         THEN <<logo_val.v>>
                         ELSE IF logo_val.t = "dict" /\ JHas(logo_val, "url")
                         THEN <<JGet(logo_val, "url").v>>
                         ELSE <<>>
                ELSE <<>>
         IN  found \o Flatten([n \in DOMAIN obj.v |-> find_logo(obj.v[n][2])])
    ELSE IF obj.t = "list"
    THEN Flatten([n \in DOMAIN obj.v |-> find_logo(obj.v[n])])
    ELSE <<>>

\* rel=lambda x: x is not None and ("icon" in x.lower() or "apple-touch-icon" in x.lower())
is_icon_rel(rel) ==
    \/ Contains(Lower(rel), <<"icon">>)
    \/ Contains(Lower(rel), <<"apple", "-", "touch", "-", "icon">>)

\* parent_class_str: the classes and id of every ancestor, joined by spaces
parent_class_str(img) ==
    Join(<<" ">>,
         Flatten([n \in DOMAIN img.parents |->
                    img.parents[n].class
                      \o (IF img.parents[n].id = None THEN <<>> ELSE <<img.parents[n].id>>)]))

parent_names(img) == {img.parents[n].name : n \in DOMAIN img.parents}

\* img_attrs = f"{img_class_val} {img_id_val} {alt_val} {src}"
img_attrs(img) ==
    Join(<<" ">>, img.class) \o <<" ">> \o img.id \o <<" ">> \o img.alt \o <<" ">> \o img.src

\* re.compile(r"logo|brand|identity", re.I).search
positive_keywords(s) == \E n \in DOMAIN s : Lower(s)[n] \in {"logo", "brand", "identity"}

\* re.compile(r"partner|client|sponsor|payment|manufacturer", re.I).search
negative_keywords(s) ==
    \E n \in DOMAIN s :
        Lower(s)[n] \in {"partner", "client", "sponsor", "payment", "manufacturer"}

IsAnchor(p) == p.name = "a"

\* Lines 200-206: the nearest enclosing <a> has an href that is a home link.
home_trigger(img, base) ==
    LET anchors == SelectSeq(img.parents, IsAnchor)
    IN  /\ anchors # <<>>
        /\ anchors[1].href # None
        /\ is_home_link(base, anchors[1].href)

header_trigger(img) ==
    "header" \in parent_names(img) \/ Contains(Lower(parent_class_str(img)), <<"header">>)

footer_trigger(img) ==
    "footer" \in parent_names(img) \/ Contains(Lower(parent_class_str(img)), <<"footer">>)

keyword_trigger(img) == positive_keywords(img_attrs(img))

stem_trigger(img, domain_stem) ==
    domain_stem # <<>> /\ Contains(Lower(img.src), domain_stem)

alt_trigger(img) == Contains(Lower(img.alt), <<"logo">>)

negative_trigger(img) ==
    negative_keywords(img_attrs(img)) \/ negative_keywords(parent_class_str(img))

\* score += delta; reasons.append(label)
Scored(acc, delta, label) ==
    [score |-> acc.score + delta, reasons |-> Append(acc.reasons, label)]

\* f"Filename matches domain '{domain_stem}'"
FilenameLabel(domain_stem) == <<"Filename matches domain '">> \o domain_stem \o <<"'">>

\* Lines 200-212: the home link.
step_home(acc, img, base) ==
    IF home_trigger(img, base) THEN Scored(acc, 50, <<"Linked to Home">>) ELSE acc

step_position_both(acc, img) ==
    IF header_trigger(img) /\ footer_trigger(img)
    THEN Scored(Scored(acc, 10, <<"In Header">>), -30, <<"In Footer">>)
    ELSE IF header_trigger(img)
    THEN Scored(acc, 10, <<"In Header">>)
    ELSE IF footer_trigger(img)
    THEN Scored(acc, -30, <<"In Footer">>)
    ELSE acc

\* Lines 214-219: if in a header ... elif in a footer ...
step_position(acc, img) ==
    IF header_trigger(img)
    THEN Scored(acc, 10, <<"In Header">>)
    ELSE IF footer_trigger(img)
    THEN Scored(acc, -30, <<"In Footer">>)
    ELSE acc

\* Lines 237-239.
step_keyword(acc, img) ==
    IF keyword_trigger(img) THEN Scored(acc, 20, <<"Keyword Match (logo/brand)">>) ELSE acc

step_stem_of_url(acc, img, base) ==
    IF /\ extract_domain_stem(base) # <<>>
       /\ Contains(Lower(normalize_url(base, img.src)), extract_domain_stem(base))
    THEN Scored(acc, 20, FilenameLabel(extract_domain_stem(base)))
    ELSE acc

\* Lines 241-243.
step_stem(acc, img, base) ==
    IF stem_trigger(img, extract_domain_stem(base))
    THEN Scored(acc, 20, FilenameLabel(extract_domain_stem(base)))
    ELSE acc

\* Lines 245-248.
step_alt(acc, img) ==
    IF alt_trigger(img) THEN Scored(acc, 10, <<"Alt text contains 'logo'">>) ELSE acc

\* Lines 250-254.
step_negative(acc, img) ==
    IF negative_trigger(img)
    THEN Scored(acc, -50, <<"Negative Keyword (partner/client)">>)
    ELSE acc

\* Lines 179-254 for one image with a src: the score and the reasons it ends
\* with, the six statements that change them applied in the code's order.
img_eval(img, base) ==
    step_negative(
      step_alt(
        step_stem(
          step_keyword(
            step_position(
              step_home([score |-> 0, reasons |-> <<>>], img, base),
              img),
            img),
          img, base),
        img),
      img)

-----------------------------------------------------------------------------
(* The candidate scorer: candidates *)

HasCandidate(cands, url) == \E n \in DOMAIN cands : cands[n].url = url

\* update_candidate: candidates after the call (a dict, kept in insertion order)
update_candidate(cands, base, url, score, reason) ==
    LET norm_url == normalize_url(base, url)
        present == IF HasCandidate(cands, norm_url)
                   THEN cands
                   ELSE Append(cands, [url |-> norm_url, score |-> 0, reasons |-> {}])
    IN  IF Falsy(norm_url)
        THEN cands
        ELSE [n \in DOMAIN present |->
                IF present[n].url = norm_url
                THEN [url |-> norm_url,
                      score |-> IF score > present[n].score
                                THEN score ELSE present[n].score,
                      reasons |-> present[n].reasons \cup {reason}]
                ELSE present[n]]

\* The record of one update_candidate call: the element that made it, the
\* normalized URL (None when the call returned early), the score and the reason.
Called(n, base, url, score, reason) ==
    [elem |-> n, url |-> normalize_url(base, url), score |-> score, reason |-> reason]

\* for logo_url in logos: update_candidate(logo_url, 60, "Schema.org Organization")
RECURSIVE update_all(_, _, _)
update_all(cands, base, urls) ==
    IF urls = <<>>
    THEN cands
    ELSE update_all(update_candidate(cands, base, Head(urls), 60,
                                     <<"Schema.org Organization">>),
                    base, Tail(urls))

\* The order in which analyze_html visits the elements of the page: the ld+json
\* scripts, the icon links, the first og:image meta, then the images.
visit_order(d) ==
    LET idx == [n \in 1 .. Len(d) |-> n]
        IsScript(n) == d[n].tag = "script"
        IsIcon(n) == d[n].tag = "link" /\ is_icon_rel(d[n].rel)
        IsMeta(n) == d[n].tag = "meta"
        IsImg(n) == d[n].tag = "img"
        metas == SelectSeq(idx, IsMeta)
    IN  SelectSeq(idx, IsScript) \o SelectSeq(idx, IsIcon)
          \o (IF metas = <<>> THEN <<>> ELSE <<metas[1]>>) \o SelectSeq(idx, IsImg)

\* sorted(candidates.items(), key=lambda x: x[1]["score"], reverse=True): stable
RECURSIVE ranked_of(_)
ranked_of(cands) ==
    IF cands = <<>>
    THEN <<>>
    ELSE LET c == cands[Len(cands)]
             front == ranked_of(SubSeq(cands, 1, Len(cands) - 1))
             NotBelow(x) == x.score >= c.score
             Below(x) == x.score < c.score
         IN  SelectSeq(front, NotBelow) \o <<c>> \o SelectSeq(front, Below)

-----------------------------------------------------------------------------
(* The scoring run *)

InitScore ==
    /\ hashes = <<>>
    /\ domains = <<>>
    /\ parent = <<>>
    /\ rank = <<>>
    /\ i = 1
    /\ j = 2
    /\ k = 1
    /\ clusters = <<>>
    /\ multi_clusters = <<>>
    /\ singletons = <<>>
    /\ report = <<>>
    /\ report_singles = <<>>
    /\ call = Idle
    /\ base_url \in BasePool
    /\ \E n \in 0 .. MaxElems :
         \E f \in [1 .. n -> DOMAIN ElemPool] :
            doc = [m \in 1 .. n |-> ElemPool[f[m]]]
    /\ pos = 1
    /\ candidates = <<>>
    /\ log = <<>>
    /\ results = <<>>
    /\ first_results = <<>>
    /\ run = 1
    /\ pc = "scan"

\* The element analyze_html visits next, and its place in the page.
CurrentIndex == visit_order(doc)[pos]
Current == doc[CurrentIndex]
Visiting(tag) == pc = "scan" /\ pos <= Len(visit_order(doc)) /\ Current.tag = tag

\* Lines 119-150, one ld+json script.
ScanScript ==
    /\ Visiting("script")
    /\ \E n \in {CurrentIndex} :
       \E logos \in {IF doc[n].data.t = "bad" THEN <<>> ELSE find_logo(doc[n].data)} :
          /\ candidates' = update_all(candidates, base_url, logos)
          /\ log' = log \o [m \in DOMAIN logos |->
                              Called(n, base_url, logos[m], 60,
                                     <<"Schema.org Organization">>)]
    /\ pos' = pos + 1
    /\ UNCHANGED <<clusterVars, base_url, doc, results, first_results, run, pc>>

\* Lines 152-159, one icon link.
ScanLink ==
    /\ Visiting("link")
    /\ \E n \in {CurrentIndex} :
       \E href \in {doc[n].href} :
          IF Falsy(href)
          THEN UNCHANGED <<candidates, log>>
          ELSE /\ candidates' = update_candidate(candidates, base_url, href, 10,
                                                 <<"Favicon/Touch Icon">>)
               /\ log' = Append(log, Called(n, base_url, href, 10,
                                            <<"Favicon/Touch Icon">>))
    /\ pos' = pos + 1
    /\ UNCHANGED <<clusterVars, base_url, doc, results, first_results, run, pc>>

\* Lines 161-165, the first og:image meta.
ScanMeta ==
    /\ Visiting("meta")
    /\ \E n \in {CurrentIndex} :
       \E content \in {doc[n].content} :
          IF Falsy(content)
          THEN UNCHANGED <<candidates, log>>
          ELSE /\ candidates' = update_candidate(candidates, base_url, content, 5,
                                                 <<"OpenGraph Image">>)
               /\ log' = Append(log, Called(n, base_url, content, 5,
                                            <<"OpenGraph Image">>))
    /\ pos' = pos + 1
    /\ UNCHANGED <<clusterVars, base_url, doc, results, first_results, run, pc>>

\* Lines 172-256, one image.
ScanImg ==
    /\ Visiting("img")
    /\ \E n \in {CurrentIndex} :
       \E img \in {doc[n]} :
          IF Falsy(img.src)
          THEN UNCHANGED <<candidates, log>>
          ELSE \E e \in {img_eval(img, base_url)} :
               \E reason \in {Join(<<", ">>, e.reasons)} :
                  /\ candidates' = update_candidate(candidates, base_url, img.src,
                                                    e.score, reason)
                  /\ log' = Append(log, Called(n, base_url, img.src, e.score, reason))
    /\ pos' = pos + 1
    /\ UNCHANGED <<clusterVars, base_url, doc, results, first_results, run, pc>>

\* Line 258: analyze_html returns.
ScanEnd ==
    /\ pc = "scan"
    /\ pos > Len(visit_order(doc))
    /\ pc' = "rank"
    /\ UNCHANGED <<clusterVars, scoreVars>>

\* Lines 29-42. list(data["reasons"]) lists a set of strings: the order is the
\* set's iteration order, which depends on the strings' hashes, and these are
\* salted per process; any order of the labels can come out.
Rank ==
    /\ pc = "rank"
    /\ LET ranked == ranked_of(candidates)
       IN  \E signals \in [DOMAIN ranked -> UNION {Orderings(ranked[n].reasons) :
                                                     n \in DOMAIN ranked}] :
              /\ \A n \in DOMAIN ranked : signals[n] \in Orderings(ranked[n].reasons)
              /\ results' = [n \in DOMAIN ranked |->
                               [rank |-> n, score |-> ranked[n].score,
                                url |-> ranked[n].url, signals |-> signals[n]]]
    /\ pc' = "done"
    /\ UNCHANGED <<clusterVars, base_url, doc, pos, candidates, log, first_results, run>>

\* The scorer is run a second time on the same page and base URL.
Rerun ==
    /\ pc = "done"
    /\ run = 1
    /\ run' = 2
    /\ first_results' = results
    /\ pos' = 1
    /\ candidates' = <<>>
    /\ log' = <<>>
    /\ results' = <<>>
    /\ pc' = "scan"
    /\ UNCHANGED <<clusterVars, base_url, doc>>

NextScore == ScanScript \/ ScanLink \/ ScanMeta \/ ScanImg \/ ScanEnd \/ Rank \/ Rerun

SpecScore == InitScore /\ [][NextScore]_vars

-----------------------------------------------------------------------------
(* Properties of the scoring run *)

\* analyze_html has returned.
ScanDone == pc \in {"rank", "done"}

\* The update_candidate calls that reached the candidate with this URL.
Detections(url) == {n \in DOMAIN log : log[n].url = url}

MaxOf(S) == CHOOSE m \in S : \A x \in S : x <= m

\* C5: every URL that some detection normalizes to has exactly one candidate
\* record; its score is the maximum of the values the detections contributed
\* and its signal set holds every contributed label.
C5_MaxMerge ==
    ScanDone =>
        /\ \A d \in DOMAIN log :
              log[d].url # None => HasCandidate(candidates, log[d].url)
        /\ \A n \in DOMAIN candidates :
              /\ \A m \in DOMAIN candidates :
                    candidates[m].url = candidates[n].url => m = n
              /\ candidates[n].score
                    = MaxOf({log[d].score : d \in Detections(candidates[n].url)})
              /\ \A d \in Detections(candidates[n].url) :
                    log[d].reason \in candidates[n].reasons

\* C6: a candidate whose only detection is one image whose deltas sum to a
\* negative value s is returned with score s.
C6_NegativeScore ==
    ScanDone =>
        \A n \in DOMAIN candidates :
            \A d \in Detections(candidates[n].url) :
                (/\ Detections(candidates[n].url) = {d}
                 /\ doc[log[d].elem].tag = "img"
                 /\ log[d].score < 0)
                    => candidates[n].score = log[d].score

Delta(trigger, delta) == IF trigger THEN delta ELSE 0

\* The deltas of the image-tag heuristics whose trigger holds, the footer one
\* taken whenever its own trigger holds.
IndependentSum(img, base) ==
    Delta(home_trigger(img, base), 50)
      + Delta(header_trigger(img), 10)
      + Delta(footer_trigger(img), -30)
      + Delta(keyword_trigger(img), 20)
      + Delta(stem_trigger(img, extract_domain_stem(base)), 20)
      + Delta(alt_trigger(img), 10)
      + Delta(negative_trigger(img), -50)

\* The same sum, the footer delta taken only when the header trigger fails.
HeaderFirstSum(img, base) ==
    Delta(home_trigger(img, base), 50)
      + Delta(header_trigger(img), 10)
      + Delta(footer_trigger(img) /\ ~header_trigger(img), -30)
      + Delta(keyword_trigger(img), 20)
      + Delta(stem_trigger(img, extract_domain_stem(base)), 20)
      + Delta(alt_trigger(img), 10)
      + Delta(negative_trigger(img), -50)

\* The calls update_candidate received from image elements.
ImageCalls == {d \in DOMAIN log : doc[log[d].elem].tag = "img"}

\* C7 as stated: the value an image proposes for its URL is the sum of the
\* deltas of all image-tag heuristics whose trigger holds, each trigger on its
\* own, so that a header ancestor and a footer ancestor give both +10 and -30.
C7_AdditiveIndependent ==
    \A d \in ImageCalls : log[d].score = IndependentSum(doc[log[d].elem], base_url)

\* C7 as amended: the value an image proposes is the sum of the deltas of the
\* heuristics whose trigger holds, where the footer delta (-30) counts only if
\* the header trigger does not hold.
C7_AdditiveHeaderFirst ==
    \A d \in ImageCalls : log[d].score = HeaderFirstSum(doc[log[d].elem], base_url)

\* An image with a header ancestor and a footer ancestor has been evaluated.
C7_Witness ==
    \E d \in ImageCalls :
        /\ header_trigger(doc[log[d].elem])
        /\ footer_trigger(doc[log[d].elem])
        /\ log[d].score = 10

\* The page <a href="/"><img src="/logo.png" alt="Acme logo"></a> scored
\* against https://acme.com.
HomeLinkScenario ==
    /\ base_url = AcmeCom
    /\ Len(doc) = 1
    /\ doc[1].tag = "img"
    /\ doc[1] = ImgHome
    /\ ScanDone

AcmeLogoUrl == AcmeCom \o LogoPng

\* C8 as stated: the scenario returns https://acme.com/logo.png with score 100
\* and the four separate labels.
C8_HomeLinkScore100 ==
    HomeLinkScenario =>
        candidates =
            <<[url |-> AcmeLogoUrl,
               score |-> 100,
               reasons |-> {<<"Linked to Home">>,
                            <<"Filename matches domain '", "acme", "'">>,
                            <<"Keyword Match">>,
                            <<"Alt text contains 'logo'">>}]>>

\* The one label the image contributes: its reasons joined by ", ".
HomeLinkLabel ==
    <<"Linked to Home", ", ", "Keyword Match (logo/brand)", ", ",
      "Alt text contains 'logo'">>

\* C8 as amended: the scenario returns https://acme.com/logo.png with score 80
\* (50 home link + 20 keyword + 10 alt; the src "/logo.png" does not contain
\* the stem "acme") and a signal set holding one label, the three reasons joined
\* by ", "; the ranked output lists it first with that one signal.
C8_HomeLinkScore80 ==
    /\ HomeLinkScenario =>
          candidates =
              <<[url |-> AcmeLogoUrl, score |-> 80, reasons |-> {HomeLinkLabel}]>>
    /\ (HomeLinkScenario /\ pc = "done") =>
          results = <<[rank |-> 1, score |-> 80, url |-> AcmeLogoUrl,
                       signals |-> <<HomeLinkLabel>>]>>

C8_Witness == HomeLinkScenario /\ pc = "done" /\ Len(results) = 1

\* C9: a second run of the scorer on the same page and base URL produces the
\* same ranked output as the first: the same candidates in the same order with
\* the same scores and the same signal lists in the same order.
C9_Deterministic ==
    (pc = "done" /\ run = 2) => results = first_results

====
